---- MODULE Spec2Model ----
(***************************************************************************)
(* Model of awr_io_analyzer (src/src/main.rs, src/src/thresholds.rs).      *)
(*                                                                         *)
(* Text is modelled as a sequence of characters, each character a string   *)
(* ("a", " ", "-"); characters that have no ASCII spelling are named       *)
(* ("TAB", "NBSP", "FIGSP", "NNBSP", "ENDASH", "EMDASH").  A report is a   *)
(* sequence of such lines.  f64 values are exact decimal fractions         *)
(* [k, n, d] with d a power of ten, plus the IEEE specials inf and nan.    *)
(***************************************************************************)
EXTENDS Integers, Sequences, FiniteSets, TLC

VARIABLES
    lines,          \* the report: read_lines(filename)
    sec,            \* main: which of the three print_table_with_alert calls runs
    section_title,  \* extract_native_table: section_title
    max_gap,        \* extract_native_table: max_gap
    pc,             \* position in the running function
    pos,            \* extract_native_table: index of the line the for loop is at
    start_idx,      \* extract_native_table: start_idx (0 is None)
    table,          \* extract_native_table: table
    started,        \* extract_native_table: started
    gap,            \* extract_native_table: gap
    result,         \* extract_native_table: the returned Option<Vec<String>>
    thresholds,     \* AlertThresholds passed to the alert functions
    alert_fn,       \* which alert function is running ("none" when not called)
    rows,           \* the table an alert function iterates over
    ri,             \* alert functions: index of the row the for loop is at
    alerts,         \* alert functions: alerts
    acc,            \* alert_on_io_profile: the Option<f64> accumulators
    output,         \* print_table_with_alert: what was printed for each section
    row,            \* row functions: the argument
    ret             \* row functions: the returned values

vars == <<lines, sec, section_title, max_gap, pc, pos, start_idx, table, started,
          gap, result, thresholds, alert_fn, rows, ri, alerts, acc, output, row, ret>>

scanVars == <<section_title, max_gap, pos, start_idx, table, started, gap, result>>
alertVars == <<thresholds, alert_fn, rows, ri, alerts, acc>>
rowVars == <<row, ret>>

(***************************************************************************)
(* Bounds of the model.                                                    *)
(***************************************************************************)
MaxLines == 4
MaxGap == 2
MaxRows == 3
MaxRowLen == 4
MaxScanBody == 5

\* print_table_with_alert: extract_native_table(lines, title_pat, 2)
PrintMaxGap == 2

(***************************************************************************)
(* Characters.                                                             *)
(***************************************************************************)
Digits == {"0", "1", "2", "3", "4", "5", "6", "7", "8", "9"}

Uppers == {"A", "B", "C", "D", "E", "F", "G", "H", "I", "J", "K", "L", "M",
           "N", "O", "P", "Q", "R", "S", "T", "U", "V", "W", "X", "Y", "Z"}

Lowers == {"a", "b", "c", "d", "e", "f", "g", "h", "i", "j", "k", "l", "m",
           "n", "o", "p", "q", "r", "s", "t", "u", "v", "w", "x", "y", "z"}

Letters == Uppers \cup Lowers

\* char::is_whitespace and the regex class \s (Unicode White_Space)
WhiteSpace == {" ", "TAB", "NBSP", "FIGSP", "NNBSP"}

\* c == '-' || c == '–' || c == '—'
DashChars == {"-", "ENDASH", "EMDASH"}

IsAlphabetic(c) == c \in Letters
IsNumeric(c) == c \in Digits
IsAsciiAlphanumeric(c) == c \in Letters \cup Digits

LowerOf == [c \in Uppers |->
    CASE c = "A" -> "a" [] c = "B" -> "b" [] c = "C" -> "c" [] c = "D" -> "d"
      [] c = "E" -> "e" [] c = "F" -> "f" [] c = "G" -> "g" [] c = "H" -> "h"
      [] c = "I" -> "i" [] c = "J" -> "j" [] c = "K" -> "k" [] c = "L" -> "l"
      [] c = "M" -> "m" [] c = "N" -> "n" [] c = "O" -> "o" [] c = "P" -> "p"
      [] c = "Q" -> "q" [] c = "R" -> "r" [] c = "S" -> "s" [] c = "T" -> "t"
      [] c = "U" -> "u" [] c = "V" -> "v" [] c = "W" -> "w" [] c = "X" -> "x"
      [] c = "Y" -> "y" [] c = "Z" -> "z"]

ToLowerChar(c) == IF c \in Uppers THEN LowerOf[c] ELSE c

(***************************************************************************)
(* Strings.                                                                *)
(***************************************************************************)
Min(S) == CHOOSE x \in S : \A y \in S : x <= y
Max(S) == CHOOSE x \in S : \A y \in S : x >= y

StartsWithAt(s, p, k) ==
    /\ k + Len(p) - 1 <= Len(s)
    /\ \A j \in 1..Len(p) : s[k + j - 1] = p[j]

StartsWith(s, p) == StartsWithAt(s, p, 1)

\* str::contains
Contains(s, p) == \E k \in 1..(Len(s) + 1) : StartsWithAt(s, p, k)

RECURSIVE SkipWhite(_, _)
\* index of the first non-whitespace character at or after k, Len(s) + 1 if none
SkipWhite(s, k) ==
    IF k > Len(s) THEN k
    ELSE IF s[k] \in WhiteSpace THEN SkipWhite(s, k + 1) ELSE k

RECURSIVE SkipWhiteBack(_, _)
\* index of the last non-whitespace character at or before k, 0 if none
SkipWhiteBack(s, k) ==
    IF k < 1 THEN 0
    ELSE IF s[k] \in WhiteSpace THEN SkipWhiteBack(s, k - 1) ELSE k

\* str::trim
Trim(s) == SubSeq(s, SkipWhite(s, 1), SkipWhiteBack(s, Len(s)))

\* str::to_lowercase
ToLowercase(s) == [k \in 1..Len(s) |-> ToLowerChar(s[k])]

RECURSIVE TokenEnd(_, _)
\* index of the last character of the whitespace-free run that starts at k
TokenEnd(s, k) ==
    IF k < Len(s) /\ s[k + 1] \notin WhiteSpace THEN TokenEnd(s, k + 1) ELSE k

\* str::split_whitespace: the maximal runs of non-whitespace characters, in order
SplitWhitespace(s) ==
    LET starts == {k \in 1..Len(s) :
                     s[k] \notin WhiteSpace /\ (k = 1 \/ s[k - 1] \in WhiteSpace)}
        nth(j) == CHOOSE k \in starts : Cardinality({y \in starts : y < k}) = j - 1
    IN  [j \in 1..Cardinality(starts) |-> SubSeq(s, nth(j), TokenEnd(s, nth(j)))]

\* str::replace(',', "")
RemoveCommas(s) == SelectSeq(s, LAMBDA c : c # ",")

(***************************************************************************)
(* extract_native_table: the patterns.                                     *)
(***************************************************************************)
TitleTop10 == <<"T", "o", "p", " ", "1", "0", " ", "F", "o", "r", "e", "g", "r", "o", "u", "n", "d", " ", "E", "v", "e", "n", "t", "s", " ", "b", "y", " ", "T", "o", "t", "a", "l", " ", "W", "a", "i", "t", " ", "T", "i", "m", "e">>
TitleWaitClasses == <<"W", "a", "i", "t", " ", "C", "l", "a", "s", "s", "e", "s", " ", "b", "y", " ", "T", "o", "t", "a", "l", " ", "W", "a", "i", "t", " ", "T", "i", "m", "e">>
TitleIOProfile == <<"I", "O", " ", "P", "r", "o", "f", "i", "l", "e">>

\* main: the three calls of print_table_with_alert, in order
Sections == <<
    [title |-> TitleTop10, name |-> "Foreground Wait Events", fn |-> "fg"],
    [title |-> TitleWaitClasses, name |-> "Wait Classes", fn |-> "wc"],
    [title |-> TitleIOProfile, name |-> "IO Profile", fn |-> "io"] >>

stop_patterns == <<
    <<"M", "a", "i", "n", " ", "R", "e", "p", "o", "r", "t">>,
    <<"B", "a", "c", "k", " ", "t", "o", " ", "T", "o", "p">>,
    <<"W", "a", "i", "t", " ", "E", "v", "e", "n", "t", "s", " ", "S", "t", "a", "t", "i", "s", "t", "i", "c", "s">>,
    <<"I", "n", "s", "t", "a", "n", "c", "e", " ", "A", "c", "t", "i", "v", "i", "t", "y">>,
    <<"S", "Q", "L", " ", "S", "t", "a", "t", "i", "s", "t", "i", "c", "s">>,
    <<"U", "n", "d", "o", " ", "S", "t", "a", "t", "i", "s", "t", "i", "c", "s">>,
    <<"S", "e", "g", "m", "e", "n", "t", " ", "S", "t", "a", "t", "i", "s", "t", "i", "c", "s">>,
    <<"L", "i", "b", "r", "a", "r", "y", " ", "C", "a", "c", "h", "e", " ", "S", "t", "a", "t", "i", "s", "t", "i", "c", "s">>,
    <<"I", "n", "i", "t", "i", "a", "l", "i", "z", "a", "t", "i", "o", "n", " ", "P", "a", "r", "a", "m", "e", "t", "e", "r", "s">>,
    <<"A", "D", "D", "M", " ", "R", "e", "p", "o", "r", "t", "s">>,
    <<"T", "o", "p", " ", "P", "r", "o", "c", "e", "s", "s", " ", "T", "y", "p", "e", "s">>,
    <<"S", "e", "r", "v", "i", "c", "e", " ", "S", "t", "a", "t", "i", "s", "t", "i", "c", "s">>,
    <<"S", "e", "r", "v", "i", "c", "e", " ", "W", "a", "i", "t", " ", "C", "l", "a", "s", "s", " ", "S", "t", "a", "t", "s">>,
    <<"W", "a", "i", "t", " ", "C", "l", "a", "s", "s", "e", "s", " ", "b", "y", " ", "T", "o", "t", "a", "l", " ", "W", "a", "i", "t", " ", "T", "i", "m", "e">>,
    <<"I", "O", " ", "P", "r", "o", "f", "i", "l", "e">> >>

\* section_pat.is_match(line): the titles are literal, the search is unanchored
SectionMatch(line, title) == Contains(line, title)

\* ^\s*-\s+ on the line itself
IsBullet(l) ==
    LET k == SkipWhite(l, 1)
    IN  /\ k < Len(l)
        /\ l[k] = "-"
        /\ l[k + 1] \in WhiteSpace

\* ^[A-Z][A-Za-z\s]+:$ on the trimmed line
IsLabel(trim) ==
    /\ Len(trim) >= 3
    /\ trim[1] \in Uppers
    /\ trim[Len(trim)] = ":"
    /\ \A k \in 2..(Len(trim) - 1) : trim[k] \in Letters \cup WhiteSpace

\* a faulty variant: the "Label:" rule is tried before the stop patterns, so a
\* boundary line that has the form of a label is not a boundary
IsStopUnlessLabel(trim) ==
    /\ \E p \in 1..Len(stop_patterns) : StartsWith(trim, stop_patterns[p])
    /\ ~IsLabel(trim)

\* stop_patterns.iter().any(|p| p.is_match(trim)): every pattern is ^literal
IsStop(trim) == \E p \in 1..Len(stop_patterns) : StartsWith(trim, stop_patterns[p])

IsMarker(l) == IsBullet(l) \/ IsLabel(Trim(l))

IsBlank(l) == Trim(l) = <<>>

\* trim.chars().all(|c| c == '-' || c == '–' || c == '—'), on a non-empty trim
IsDashes(l) ==
    LET t == Trim(l)
    IN  t # <<>> /\ \A k \in 1..Len(t) : t[k] \in DashChars

\* a faulty variant: start_idx.unwrap_or(0), the scan starts although no header matched
FindStartOrFirst(ls, title) ==
    LET hits == {k \in 1..Len(ls) : SectionMatch(ls[k], title)}
    IN  IF hits = {} THEN (IF ls = <<>> THEN 0 ELSE 1) ELSE Min(hits)

\* the first loop: index of the first line matching the header, 0 for None
FindStart(ls, title) ==
    LET hits == {k \in 1..Len(ls) : SectionMatch(ls[k], title)}
    IN  IF hits = {} THEN 0 ELSE Min(hits)

\* a faulty variant: table.push(trim.to_string())
PushTrimmed(t, l) == Append(t, Trim(l))

\* table.push(l.clone())
PushLine(t, l) == Append(t, l)

\* faulty variants: the dash branch never pushes / pushes without looking at started
KeepDashNever(st) == FALSE
KeepDashAlways(st) == TRUE

\* if started { table.push(l.clone()); } in the dash branch
KeepDash(st) == st

\* gap >= max_gap
GapReached(g, mg) == g >= mg

None == <<"None">>
Some(v) == <<"Some", v>>
Pending == <<"Pending">>

\* if table.is_empty() { None } else { Some(table) }
TableResult(t) == IF t = <<>> THEN None ELSE Some(t)

(***************************************************************************)
(* f64.  [k |-> "fin", n, d] is the number n/d, d a power of ten, with no  *)
(* common factor ten left; inf and nan are the IEEE specials.              *)
(***************************************************************************)
RECURSIVE Reduce(_, _)
Reduce(n, d) ==
    IF n = 0 THEN <<0, 1>>
    ELSE IF d > 1 /\ n % 10 = 0 THEN Reduce(n \div 10, d \div 10) ELSE <<n, d>>

Fin(n, d) == [k |-> "fin", n |-> Reduce(n, d)[1], d |-> Reduce(n, d)[2]]
Inf(sign) == [k |-> "inf", n |-> sign, d |-> 1]
NaN == [k |-> "nan", n |-> 0, d |-> 1]

\* a > b on f64: false whenever either side is nan
Gt(a, b) ==
    CASE a.k = "nan" \/ b.k = "nan" -> FALSE
      [] a.k = "inf" /\ b.k # "nan" -> a.n = 1 /\ ~(b.k = "inf" /\ b.n = 1)
      [] a.k = "fin" /\ b.k = "inf" -> b.n = -1
      [] OTHER -> a.n * b.d > b.n * a.d

\* a < b on f64
Lt(a, b) == Gt(b, a)

\* finite arithmetic (the values the alert functions combine are finite)
Times(a, m) == Fin(a.n * m, a.d)
DivideBy(a, m) == Fin(a.n, a.d * m)
Plus(a, b) == Fin(a.n * b.d + b.n * a.d, a.d * b.d)

RECURSIVE Pow10(_)
Pow10(e) == IF e <= 0 THEN 1 ELSE 10 * Pow10(e - 1)

DigitValue == [c \in Digits |->
    CASE c = "0" -> 0 [] c = "1" -> 1 [] c = "2" -> 2 [] c = "3" -> 3
      [] c = "4" -> 4 [] c = "5" -> 5 [] c = "6" -> 6 [] c = "7" -> 7
      [] c = "8" -> 8 [] c = "9" -> 9]

AllDigits(s) == \A k \in 1..Len(s) : s[k] \in Digits

\* the value of a (possibly empty) string of digits
DigitsValue(s) ==
    LET F[k \in 0..Len(s)] == IF k = 0 THEN 0 ELSE F[k - 1] * 10 + DigitValue[s[k]]
    IN  F[Len(s)]

IndexOf(s, C) ==
    LET hits == {k \in 1..Len(s) : s[k] \in C}
    IN  IF hits = {} THEN 0 ELSE Min(hits)

\* str::parse::<f64>:
\*   Float  ::= Sign? ( 'inf' | 'infinity' | 'nan' | Number )
\*   Number ::= ( Digit+ | Digit+ '.' Digit* | Digit* '.' Digit+ ) Exp?
\*   Exp    ::= 'e' Sign? Digit+        (letters in either case)
ParseF64(s) ==
    LET signed == s # <<>> /\ s[1] \in {"+", "-"}
        sign == IF signed /\ s[1] = "-" THEN -1 ELSE 1
        body == IF signed THEN Tail(s) ELSE s
        low == ToLowercase(body)
        ePos == IndexOf(low, {"e"})
        mant == IF ePos = 0 THEN low ELSE SubSeq(low, 1, ePos - 1)
        expo == IF ePos = 0 THEN <<>> ELSE SubSeq(low, ePos + 1, Len(low))
        eSigned == expo # <<>> /\ expo[1] \in {"+", "-"}
        eSign == IF eSigned /\ expo[1] = "-" THEN -1 ELSE 1
        eDigits == IF eSigned THEN Tail(expo) ELSE expo
        dot == IndexOf(mant, {"."})
        whole == IF dot = 0 THEN mant ELSE SubSeq(mant, 1, dot - 1)
        frac == IF dot = 0 THEN <<>> ELSE SubSeq(mant, dot + 1, Len(mant))
        mantOk == AllDigits(whole) /\ AllDigits(frac) /\ Len(whole) + Len(frac) >= 1
        expOk == ePos = 0 \/ (eDigits # <<>> /\ AllDigits(eDigits))
        m == DigitsValue(whole \o frac)
        e == eSign * DigitsValue(eDigits) - Len(frac)
    IN  CASE low = <<"i", "n", "f">> \/ low = <<"i", "n", "f", "i", "n", "i", "t", "y">> -> Some(Inf(sign))
          [] low = <<"n", "a", "n">> -> Some(NaN)
          [] OTHER ->
               IF mantOk /\ expOk
               THEN Some(IF e >= 0 THEN Fin(sign * m * Pow10(e), 1)
                                   ELSE Fin(sign * m, Pow10(-e)))
               ELSE None

(***************************************************************************)
(* The row functions.                                                      *)
(***************************************************************************)
\* parts[i].chars().all(|c| c.is_alphabetic() || c == '/')
IsLabelToken(tok) == \A k \in 1..Len(tok) : IsAlphabetic(tok[k]) \/ tok[k] = "/"

\* parts[i - 1].replace(',', "").parse::<f64>()
ParseNumberToken(tok) == ParseF64(RemoveCommas(tok))

\* if let Ok(v) = ... { return Some(v); }  inside the loop: a label whose
\* predecessor does not parse lets the loop go on to the next i
PairFound(parts, i) == IsLabelToken(parts[i]) /\ ParseNumberToken(parts[i - 1]) # None

RECURSIVE PercentLoopFirstLabel(_, _)
\* a faulty variant: the first label token found decides, whether or not its
\* predecessor parses
PercentLoopFirstLabel(parts, i) ==
    IF i < 2 THEN None
    ELSE IF IsLabelToken(parts[i]) THEN ParseNumberToken(parts[i - 1])
    ELSE PercentLoopFirstLabel(parts, i - 1)

RECURSIVE PercentLoop(_, _)
\* for i in (1..parts.len()).rev(), with parts indexed from 1: i from Len down to 2
PercentLoop(parts, i) ==
    IF i < 2 THEN None
    ELSE IF PairFound(parts, i) THEN ParseNumberToken(parts[i - 1])
    ELSE PercentLoop(parts, i - 1)

extract_percent_from_wait_row(r) ==
    LET parts == SplitWhitespace(r)
    IN  IF Len(parts) < 2 THEN None ELSE PercentLoop(parts, Len(parts))

\* the end of the run of digits and dots that starts at p
RECURSIVE NumberRunEnd(_, _)
NumberRunEnd(s, p) ==
    IF p <= Len(s) /\ s[p] \in Digits \cup {"."} THEN NumberRunEnd(s, p + 1) ELSE p

\* (\d*\.?\d+) on a whole run of digits and dots
IsDecimalText(t) ==
    /\ t # <<>>
    /\ t[Len(t)] \in Digits
    /\ Cardinality({k \in 1..Len(t) : t[k] = "."}) <= 1

\* (\d*\.?\d+)(ms|us) matching at p: the number is followed at once by the unit
LatencyMatchAt(s, p) ==
    LET q == NumberRunEnd(s, p)
    IN  /\ q > p
        /\ IsDecimalText(SubSeq(s, p, q - 1))
        /\ (StartsWithAt(s, <<"m", "s">>, q) \/ StartsWithAt(s, <<"u", "s">>, q))

extract_latency_ms(r) ==
    LET hits == {p \in 1..Len(r) : LatencyMatchAt(r, p)}
    IN  IF hits = {} THEN None
        ELSE LET p == Min(hits)
                 q == NumberRunEnd(r, p)
                 val == ParseF64(SubSeq(r, p, q - 1))
             IN  IF val = None THEN None
                 ELSE IF StartsWithAt(r, <<"u", "s">>, q) THEN Some(DivideBy(val[2], 1000))
                 ELSE val

\* row.replace('\t', " ") and the three Unicode spaces
CleanSpaces(r) ==
    [k \in 1..Len(r) |-> IF r[k] \in {"TAB", "NBSP", "FIGSP", "NNBSP"} THEN " " ELSE r[k]]

\* re.split(clean.trim()).next() with re = " {2,}": the text before the first
\* run of two or more spaces
FirstColumn(t) ==
    LET hits == {k \in 1..Len(t) : StartsWithAt(t, <<" ", " ">>, k)}
    IN  IF hits = {} THEN t ELSE SubSeq(t, 1, Min(hits) - 1)

\* .replace(|c: char| !c.is_ascii_alphanumeric(), "_")
ReplaceNonAlnum(s) ==
    [k \in 1..Len(s) |-> IF IsAsciiAlphanumeric(s[k]) THEN s[k] ELSE "_"]

RECURSIVE ReplaceDoubleFrom(_, _)
ReplaceDoubleFrom(s, k) ==
    IF k > Len(s) THEN <<>>
    ELSE IF k < Len(s) /\ s[k] = "_" /\ s[k + 1] = "_"
         THEN <<"_">> \o ReplaceDoubleFrom(s, k + 2)
         ELSE <<s[k]>> \o ReplaceDoubleFrom(s, k + 1)

\* .replace("__", "_"): one left-to-right pass over non-overlapping matches
ReplaceDoubleUnderscore(s) == ReplaceDoubleFrom(s, 1)

\* .trim_matches('_')
TrimUnderscores(s) ==
    LET keep == {k \in 1..Len(s) : s[k] # "_"}
    IN  IF keep = {} THEN <<>> ELSE SubSeq(s, Min(keep), Max(keep))

\* event.trim().to_lowercase().replace(..).replace("__", "_").trim_matches('_')
NormalizeEvent(event) ==
    TrimUnderscores(ReplaceDoubleUnderscore(ReplaceNonAlnum(ToLowercase(Trim(event)))))

\* for c in clean.chars() { if c.is_numeric() { break; } event.push(c); }
UpToFirstDigit(s) ==
    LET d == IndexOf(s, Digits)
    IN  IF d = 0 THEN s ELSE SubSeq(s, 1, d - 1)

Unknown == <<"u", "n", "k", "n", "o", "w", "n">>

extract_event_name(r) ==
    LET clean == CleanSpaces(r)
        event == FirstColumn(Trim(clean))
        fallback == UpToFirstDigit(clean)
    IN  IF Trim(event) # <<>> THEN NormalizeEvent(event)
        ELSE IF Trim(fallback) # <<>> THEN NormalizeEvent(fallback)
        ELSE Unknown

(***************************************************************************)
(* AlertThresholds (thresholds.rs).  f64 values: [k |-> "fin", n, d] is    *)
(* n/d with d a power of ten and n/d in lowest such form.                  *)
(***************************************************************************)
\* impl Default for AlertThresholds
DefaultThresholds == [wait_pct |-> Fin(10, 1), io_latency_ms |-> Fin(20, 1),
                      row_lock_pct |-> Fin(3, 1), gc_remote_pct |-> Fin(2, 1),
                      io_request_rate |-> Fin(10000, 1)]

NoAcc == [total_requests |-> None, read_reqs |-> None, write_reqs |-> None,
          read_mb |-> None, write_mb |-> None,
          scattered_reads |-> None, sequential_reads |-> None]

\* thresholds a configuration file can set (load_thresholds_from_file)
TunedThresholds == [wait_pct |-> Fin(5, 1), io_latency_ms |-> Fin(1, 1),
                    row_lock_pct |-> Fin(1, 1), gc_remote_pct |-> Fin(1, 1),
                    io_request_rate |-> Fin(100, 1)]

(***************************************************************************)
(* The alert functions.  An alert is <<message template, arguments...>>.   *)
(***************************************************************************)
\* Each rule is the alerts its if-block pushes for one row: one alert or none.
\* pct, lat and event are extract_percent_from_wait_row(row),
\* extract_latency_ms(row) and extract_event_name(row), which the rules call
\* again and again on the same row.
Above(v, limit) == v # None /\ Gt(v[2], limit)

\* [RULE 4] General: high % wait time for any FG event
RuleHighWait(t, pct, event) ==
    IF Above(pct, t.wait_pct)
    THEN <<<<"High wait time for event", event, pct[2]>>>>
    ELSE <<>>

\* [RULE 2] High I/O latency (any event)
RuleHighLatency(t, lat, event) ==
    IF Above(lat, t.io_latency_ms)
    THEN <<<<"High I/O latency for", event, lat[2], t.io_latency_ms>>>>
    ELSE <<>>

\* [RULE 10] log file sync / parallel write
RuleRedoLog(r, t, pct, event) ==
    IF /\ Contains(r, <<"l", "o", "g", " ", "f", "i", "l", "e", " ", "s", "y", "n", "c">>) \/ Contains(r, <<"l", "o", "g", " ", "f", "i", "l", "e", " ", "p", "a", "r", "a", "l", "l", "e", "l", " ", "w", "r", "i", "t", "e">>)
       /\ Above(pct, t.wait_pct)
    THEN <<<<"Redo log bottleneck", event, pct[2]>>>>
    ELSE <<>>

\* [RULE 11] buffer busy waits
RuleBufferBusy(r) ==
    IF Contains(r, <<"b", "u", "f", "f", "e", "r", " ", "b", "u", "s", "y", " ", "w", "a", "i", "t", "s">>)
    THEN <<<<"buffer busy waits - hot blocks likely">>>>
    ELSE <<>>

\* [RULE 13] row lock contention
RuleRowLock(r, t, pct) ==
    IF Contains(r, <<"r", "o", "w", " ", "l", "o", "c", "k", " ", "c", "o", "n", "t", "e", "n", "t", "i", "o", "n">>) /\ Above(pct, t.row_lock_pct)
    THEN <<<<"Row lock contention", pct[2]>>>>
    ELSE <<>>

\* [RULE 14] GC remote, any "gc" event
RuleGlobalCache(r, t, pct, event) ==
    IF Contains(ToLowercase(r), <<"g", "c">>) /\ Above(pct, t.gc_remote_pct)
    THEN <<<<"Global Cache (RAC) event", event, pct[2]>>>>
    ELSE <<>>

\* [RULE 15] Enqueue/contention (enq:)
RuleEnqueue(r, event) ==
    IF Contains(r, <<"e", "n", "q", ":">>)
    THEN <<<<"Contention seen", event>>>>
    ELSE <<>>

\* [RULE 9] db file parallel read
RuleParallelRead(r, t, pct) ==
    IF Contains(r, <<"d", "b", " ", "f", "i", "l", "e", " ", "p", "a", "r", "a", "l", "l", "e", "l", " ", "r", "e", "a", "d">>) /\ Above(pct, t.wait_pct)
    THEN <<<<"High db file parallel read", pct[2]>>>>
    ELSE <<>>

\* [RULE 12] Temp I/O (direct path write temp)
RuleTempIO(r) ==
    IF Contains(r, <<"d", "i", "r", "e", "c", "t", " ", "p", "a", "t", "h", " ", "w", "r", "i", "t", "e", " ", "t", "e", "m", "p">>) \/ Contains(r, <<"d", "i", "r", "e", "c", "t", " ", "p", "a", "t", "h", " ", "r", "e", "a", "d", " ", "t", "e", "m", "p">>)
    THEN <<<<"Temp I/O - heavy temp usage detected">>>>
    ELSE <<>>

\* the if-blocks of the loop body of alert_on_fg_waits, in turn
FgRules(r, t, pct, lat, event) ==
    RuleHighWait(t, pct, event) \o RuleHighLatency(t, lat, event)
        \o RuleRedoLog(r, t, pct, event) \o RuleBufferBusy(r) \o RuleRowLock(r, t, pct)
        \o RuleGlobalCache(r, t, pct, event) \o RuleEnqueue(r, event)
        \o RuleParallelRead(r, t, pct) \o RuleTempIO(r)

\* alert_on_fg_waits: the body of  for row in table
FgRow(al, r, t) ==
    al \o FgRules(r, t, extract_percent_from_wait_row(r), extract_latency_ms(r),
                  extract_event_name(r))

\* a faulty variant: pct >= t.wait_pct
RuleUserIOAtLeast(r, t, pct) ==
    IF Contains(r, <<"U", "s", "e", "r", " ", "I", "/", "O">>) /\ pct # None /\ ~Lt(pct[2], t.wait_pct) /\ pct[2].k # "nan"
    THEN <<<<"High User I/O class - DB is I/O-bound">>>>
    ELSE <<>>

RuleUserIO(r, t, pct) ==
    IF Contains(r, <<"U", "s", "e", "r", " ", "I", "/", "O">>) /\ Above(pct, t.wait_pct)
    THEN <<<<"High User I/O class - DB is I/O-bound">>>>
    ELSE <<>>

RuleCommit(r, t, pct) ==
    IF Contains(r, <<"C", "o", "m", "m", "i", "t">>) /\ Above(pct, t.wait_pct)
    THEN <<<<"Commit wait class elevated - redo pressure">>>>
    ELSE <<>>

RuleConcurrency(r, t, pct) ==
    IF Contains(r, <<"C", "o", "n", "c", "u", "r", "r", "e", "n", "c", "y">>) /\ Above(pct, t.row_lock_pct)
    THEN <<<<"High concurrency wait class">>>>
    ELSE <<>>

\* the if-blocks of the loop body of alert_on_wait_classes, in turn
WcRules(r, t, pct) == RuleUserIO(r, t, pct) \o RuleCommit(r, t, pct) \o RuleConcurrency(r, t, pct)

\* alert_on_wait_classes: the body of  for row in table
WcRow(al, r, t) == al \o WcRules(r, t, extract_percent_from_wait_row(r))

\* the end of the run of digits, commas and dots that starts at p
RECURSIVE CaptureEnd(_, _)
CaptureEnd(s, p) ==
    IF p <= Len(s) /\ s[p] \in Digits \cup {",", "."} THEN CaptureEnd(s, p + 1) ELSE p

RECURSIVE CapturesFrom(_, _)
\* num_re.captures_iter(l) with num_re = (\d[\d,\.]+): the successive matches
CapturesFrom(s, p) ==
    IF p >= Len(s) THEN <<>>
    ELSE IF s[p] \in Digits /\ s[p + 1] \in Digits \cup {",", "."}
         THEN <<SubSeq(s, p, CaptureEnd(s, p + 1) - 1)>>
                  \o CapturesFrom(s, CaptureEnd(s, p + 1))
         ELSE CapturesFrom(s, p + 1)

Captures(s) == CapturesFrom(s, 1)

\* c[1].replace(',', "").parse().ok()
ParseCapture(c) == ParseF64(RemoveCommas(c))

\* .filter_map(..).collect(); vals.first()
FirstParsedOf(caps) ==
    LET vals == SelectSeq([k \in 1..Len(caps) |-> ParseCapture(caps[k])],
                          LAMBDA v : v # None)
    IN  IF vals = <<>> THEN None ELSE vals[1]

FirstParsed(s) == FirstParsedOf(Captures(s))

\* .next().and_then(..)
FirstCaptureOf(caps) == IF caps = <<>> THEN None ELSE ParseCapture(caps[1])

FirstCapture(s) == FirstCaptureOf(Captures(s))

\* [RULE 1] Total requests per sec, pushed inside the loop; first is vals.first()
RuleTotalRequests(l, t, first) ==
    IF Contains(l, <<"T", "o", "t", "a", "l", " ", "R", "e", "q", "u", "e", "s", "t", "s", ":">>) /\ Above(first, t.io_request_rate)
    THEN <<<<"High I/O request rate", first[2], t.io_request_rate>>>>
    ELSE <<>>

\* alert_on_io_profile: what the body of  for l in table  leaves in the
\* accumulators; first is vals.first(), cap is captures_iter(l).next().and_then(..)
IoAccWith(a, l, first, cap) ==
    [total_requests |->
        IF Contains(l, <<"T", "o", "t", "a", "l", " ", "R", "e", "q", "u", "e", "s", "t", "s", ":">>) /\ first # None
        THEN first ELSE a.total_requests,
     read_reqs |->
        IF Contains(l, <<"R", "e", "a", "d", " ", "R", "e", "q", "u", "e", "s", "t", "s", " ", "p", "e", "r", " ", "S", "e", "c", "o", "n", "d">>) THEN cap ELSE a.read_reqs,
     write_reqs |->
        IF Contains(l, <<"W", "r", "i", "t", "e", " ", "R", "e", "q", "u", "e", "s", "t", "s", " ", "p", "e", "r", " ", "S", "e", "c", "o", "n", "d">>) THEN cap ELSE a.write_reqs,
     read_mb |->
        IF Contains(l, <<"R", "e", "a", "d", " ", "M", "B", "/", "s", "e", "c">>) THEN cap ELSE a.read_mb,
     write_mb |->
        IF Contains(l, <<"W", "r", "i", "t", "e", " ", "M", "B", "/", "s", "e", "c">>) THEN cap ELSE a.write_mb,
     scattered_reads |->
        IF Contains(l, <<"d", "b", " ", "f", "i", "l", "e", " ", "s", "c", "a", "t", "t", "e", "r", "e", "d", " ", "r", "e", "a", "d">>) THEN cap ELSE a.scattered_reads,
     sequential_reads |->
        IF Contains(l, <<"d", "b", " ", "f", "i", "l", "e", " ", "s", "e", "q", "u", "e", "n", "t", "i", "a", "l", " ", "r", "e", "a", "d">>) THEN cap ELSE a.sequential_reads]

IoRowAcc(a, l) == IoAccWith(a, l, FirstParsed(l), FirstCapture(l))

\* a faulty variant: if w >= r * 2.0
RuleWriteReadRatioAtLeast(a) ==
    IF /\ a.write_reqs # None
       /\ a.read_reqs # None
       /\ ~Lt(a.write_reqs[2], Times(a.read_reqs[2], 2))
    THEN <<<<"Write requests are more than 2x reads", a.write_reqs[2], a.read_reqs[2]>>>>
    ELSE <<>>

\* [RULE 8] Write/Read ratio
RuleWriteReadRatio(a) ==
    IF /\ a.write_reqs # None
       /\ a.read_reqs # None
       /\ Gt(a.write_reqs[2], Times(a.read_reqs[2], 2))
    THEN <<<<"Write requests are more than 2x reads", a.write_reqs[2], a.read_reqs[2]>>>>
    ELSE <<>>

\* [RULE 17] Throughput anomaly
RuleLowThroughput(a) ==
    IF /\ a.total_requests # None
       /\ a.read_mb # None
       /\ a.write_mb # None
       /\ Gt(a.total_requests[2], Fin(0, 1))
       /\ Lt(Plus(a.read_mb[2], a.write_mb[2]), Fin(1, 1))
    THEN <<<<"High IOPS but very low MB/sec", a.total_requests[2],
                    Plus(a.read_mb[2], a.write_mb[2])>>>>
    ELSE <<>>

\* [RULE 19] Scattered vs sequential
RuleScattered(a) ==
    IF /\ a.scattered_reads # None
       /\ a.sequential_reads # None
       /\ Gt(a.scattered_reads[2], Times(a.sequential_reads[2], 2))
    THEN <<<<"db file scattered read >2x sequential read",
                    a.scattered_reads[2], a.sequential_reads[2]>>>>
    ELSE <<>>

\* alert_on_io_profile: the body of  for l in table  pushes rule 1's alert
IoRow(al, l, t) == al \o RuleTotalRequests(l, t, FirstParsed(l))

\* a faulty variant: the aggregate alerts are put in front of the alerts collected so far
IoAggregateInFront(al, a) ==
    RuleWriteReadRatio(a) \o RuleLowThroughput(a) \o RuleScattered(a) \o al

\* alert_on_io_profile: the three rules after the loop
IoAggregate(al, a) ==
    al \o RuleWriteReadRatio(a) \o RuleLowThroughput(a) \o RuleScattered(a)

(***************************************************************************)
(* The inputs the model runs on.                                           *)
(***************************************************************************)
SeqsUpTo(S, n) == UNION {[1..k -> S] : k \in 0..n}

\* the reports extract_native_table is called on directly: lines before the
\* header, the header (or none), lines after it
ScanHeader == <<"T", "o", "p", " ", "1", "0", " ", "F", "o", "r", "e", "g", "r", "o", "u", "n", "d", " ", "E", "v", "e", "n", "t", "s", " ", "b", "y", " ", "T", "o", "t", "a", "l", " ", "W", "a", "i", "t", " ", "T", "i", "m", "e">>

ScanPrefixes == { <<>>, << <<" ", "1", "2", ".", "0", " ", "U", "s", "e", "r", " ", "I", "/", "O">> >>, << <<>>, <<" ", "-", "-", "-">> >> }

ScanBodyLines == {
    <<>>,
    <<" ", "-", "-", "-">>,
    <<" ", "1", "2", ".", "0", " ", "U", "s", "e", "r", " ", "I", "/", "O">>,
    <<"B", "a", "c", "k", " ", "t", "o", " ", "T", "o", "p", ":">>,
    <<" ", " ", "-", " ", "M", "a", "i", "n", " ", "R", "e", "p", "o", "r", "t">> }

\* lines of a report
ReportLines == {
    <<"T", "o", "p", " ", "1", "0", " ", "F", "o", "r", "e", "g", "r", "o", "u", "n", "d", " ", "E", "v", "e", "n", "t", "s", " ", "b", "y", " ", "T", "o", "t", "a", "l", " ", "W", "a", "i", "t", " ", "T", "i", "m", "e">>,
    <<"W", "a", "i", "t", " ", "C", "l", "a", "s", "s", "e", "s", " ", "b", "y", " ", "T", "o", "t", "a", "l", " ", "W", "a", "i", "t", " ", "T", "i", "m", "e">>,
    <<"I", "O", " ", "P", "r", "o", "f", "i", "l", "e">>,
    <<>>,
    <<" ", "-", "-", "-">>,
    <<" ", "1", "2", ".", "0", " ", "U", "s", "e", "r", " ", "I", "/", "O">>,
    <<"T", "o", "t", "a", "l", " ", "R", "e", "q", "u", "e", "s", "t", "s", ":", " ", "2", "0", ",", "0", "0", "0", ".", "5">>,
    <<" ", " ", "-", " ", "M", "a", "i", "n", " ", "R", "e", "p", "o", "r", "t">> }

\* rows of a foreground-events table
FgRows == {
    <<" ", "-", "-", "-">>,
    <<"l", "o", "g", " ", "f", "i", "l", "e", " ", "s", "y", "n", "c", " ", " ", "2", "3", "2", ",", "1", "4", "2", " ", " ", "9", ".", "2", "7", "m", "s", " ", " ", "1", "2", ".", "0", " ", "C", "o", "m", "m", "i", "t">>,
    <<"g", "c", " ", "b", "u", "f", "f", "e", "r", " ", "b", "u", "s", "y", " ", "w", "a", "i", "t", "s", " ", " ", "2", "5", ".", "5", "m", "s", " ", " ", "3", ".", "0", " ", "C", "l", "u", "s", "t", "e", "r">>,
    <<"e", "n", "q", ":", " ", "T", "X", " ", "-", " ", "r", "o", "w", " ", "l", "o", "c", "k", " ", "c", "o", "n", "t", "e", "n", "t", "i", "o", "n", " ", " ", "4", ".", "0", " ", "A", "p", "p", "l", "i", "c", "a", "t", "i", "o", "n">>,
    <<"d", "i", "r", "e", "c", "t", " ", "p", "a", "t", "h", " ", "r", "e", "a", "d", " ", "t", "e", "m", "p", " ", " ", "2", "1", "2", ".", "9", "9", "u", "s", " ", " ", ".", "5">> }

\* rows of a wait-classes table
WcRows == {
    <<" ", "-", "-", "-">>,
    <<"1", "2", ".", "0", " ", "U", "s", "e", "r", " ", "I", "/", "O">>,
    <<"8", ".", "0", " ", "U", "s", "e", "r", " ", "I", "/", "O">>,
    <<"1", "0", ".", "0", " ", "U", "s", "e", "r", " ", "I", "/", "O">>,
    <<"U", "s", "e", "r", " ", "I", "/", "O", " ", " ", "1", "2", ".", "0">>,
    <<"1", "1", ".", "0", " ", "C", "o", "m", "m", "i", "t">>,
    <<"4", ".", "0", " ", "C", "o", "n", "c", "u", "r", "r", "e", "n", "c", "y">> }

\* rows of an IO-profile table
IoRows == {
    <<" ", "-", "-", "-">>,
    <<"T", "o", "t", "a", "l", " ", "R", "e", "q", "u", "e", "s", "t", "s", ":", " ", "2", "0", ",", "0", "0", "0", ".", "5", " ", "1", "0", ".", "0">>,
    <<"R", "e", "a", "d", " ", "R", "e", "q", "u", "e", "s", "t", "s", " ", "p", "e", "r", " ", "S", "e", "c", "o", "n", "d", ":", " ", "2", "0", ".", "0">>,
    <<"W", "r", "i", "t", "e", " ", "R", "e", "q", "u", "e", "s", "t", "s", " ", "p", "e", "r", " ", "S", "e", "c", "o", "n", "d", ":", " ", "5", "0", ".", "0">>,
    <<"W", "r", "i", "t", "e", " ", "R", "e", "q", "u", "e", "s", "t", "s", " ", "p", "e", "r", " ", "S", "e", "c", "o", "n", "d", ":", " ", "3", "5", ".", "0">>,
    <<"W", "r", "i", "t", "e", " ", "R", "e", "q", "u", "e", "s", "t", "s", " ", "p", "e", "r", " ", "S", "e", "c", "o", "n", "d", ":", " ", "4", "0">>,
    <<"W", "r", "i", "t", "e", " ", "R", "e", "q", "u", "e", "s", "t", "s", " ", "p", "e", "r", " ", "S", "e", "c", "o", "n", "d", ":", " ", "n", "/", "a">>,
    <<"R", "e", "a", "d", " ", "M", "B", "/", "s", "e", "c", ":", " ", "0", ".", "2">>,
    <<"W", "r", "i", "t", "e", " ", "M", "B", "/", "s", "e", "c", ":", " ", "0", ".", "3">> }

\* characters of the rows the row functions are run on
RowAlphabet == {" ", "a", "Z", "1", "-", "_", "/", "."}

\* further rows the row functions are run on
RowSamples == {
    <<"l", "o", "g", " ", "f", "i", "l", "e", " ", "s", "y", "n", "c", " ", " ", " ", "2", "3", "2", ",", "1", "4", "2", " ", " ", " ", "2", "1", "5", "1", ".", "6", " ", " ", " ", "9", ".", "2", "7", "m", "s", " ", " ", " ", "7", ".", "0", " ", "C", "o", "m", "m", "i", "t">>,
    <<"d", "b", " ", "f", "i", "l", "e", " ", "s", "e", "q", "u", "e", "n", "t", "i", "a", "l", " ", "r", "e", "a", "d", " ", " ", "1", ",", "2", "3", "4", " ", " ", "4", "5", ".", "9", "0", "m", "s", " ", " ", "1", "2", ".", "0", " ", "U", "s", "e", "r", " ", "I", "/", "O">>,
    <<"e", "n", "q", ":", " ", "T", "X", " ", "-", " ", "r", "o", "w", " ", "l", "o", "c", "k", " ", "c", "o", "n", "t", "e", "n", "t", "i", "o", "n", " ", " ", "5", " ", " ", "3", ".", "0", " ", "A", "p", "p", "l", "i", "c", "a", "t", "i", "o", "n">>,
    <<"5", " ", "W", "a", "i", "t", "s", " ", "1", "2", ".", "0", " ", "U", "s", "e", "r", " ", "I", "/", "O">>,
    <<"U", "s", "e", "r", " ", "I", "/", "O", " ", " ", "1", "2", ".", "0">>,
    <<"TAB", "g", "c", " ", "c", "r", "NBSP", "b", "l", "o", "c", "k", " ", "b", "u", "s", "y", " ", " ", "2", "1", "2", ".", "9", "9", "u", "s", " ", " ", "x", " ", "1", ",", "2", ",", "3", " ", "o", "k">>,
    <<"n", "a", "n", " ", "C", "o", "m", "m", "i", "t">>,
    <<" ", "-", "-", "-", " ">> }

(***************************************************************************)
(* extract_native_table, one loop iteration per step.                      *)
(***************************************************************************)
idleAlert ==
    /\ thresholds = DefaultThresholds
    /\ alert_fn = "none"
    /\ rows = <<>>
    /\ ri = 0
    /\ alerts = <<>>
    /\ acc = NoAcc

idleRow ==
    /\ row = <<>>
    /\ ret = <<>>

enterScan ==
    /\ pc = "find"
    /\ pos = 0
    /\ start_idx = 0
    /\ table = <<>>
    /\ started = FALSE
    /\ gap = 0
    /\ result = Pending

\* a direct call extract_native_table(lines, section_title, max_gap)
InitScan ==
    /\ \E pre \in ScanPrefixes, body \in SeqsUpTo(ScanBodyLines, MaxScanBody) :
         \/ lines = pre \o <<ScanHeader>> \o body
         \/ Len(body) <= 1 /\ lines = pre \o body
    /\ section_title = TitleTop10
    /\ max_gap \in 0..MaxGap
    /\ sec = 0
    /\ output = <<>>
    /\ enterScan
    /\ idleAlert
    /\ idleRow

\* let start = start_idx?;  with no header line: return None
HeaderMissing ==
    /\ pc = "find"
    /\ FindStart(lines, section_title) = 0
    /\ result' = None
    /\ pc' = "returned"
    /\ UNCHANGED <<lines, sec, section_title, max_gap, pos, start_idx, table,
                   started, gap, output>>
    /\ UNCHANGED alertVars
    /\ UNCHANGED rowVars

\* let start = start_idx?;  the loop starts at lines[start + 1]
HeaderFound ==
    /\ pc = "find"
    /\ FindStart(lines, section_title) # 0
    /\ start_idx' = FindStart(lines, section_title)
    /\ pos' = FindStart(lines, section_title) + 1
    /\ pc' = "scan"
    /\ UNCHANGED <<lines, sec, section_title, max_gap, table, started, gap,
                   result, output>>
    /\ UNCHANGED alertVars
    /\ UNCHANGED rowVars

scanning == pc = "scan" /\ pos <= Len(lines)

scanFrame ==
    /\ UNCHANGED <<lines, sec, section_title, max_gap, start_idx, result, output>>
    /\ UNCHANGED alertVars
    /\ UNCHANGED rowVars

\* if stop_patterns.iter().any(|p| p.is_match(trim)) { break; }
ScanStop ==
    /\ scanning
    /\ IsStop(Trim(lines[pos]))
    /\ pc' = "end"
    /\ UNCHANGED <<pos, table, started, gap>>
    /\ scanFrame

\* the bullet / "Label:" branch: break once started, else continue
ScanMarker ==
    /\ scanning
    /\ ~IsStop(Trim(lines[pos]))
    /\ IsMarker(lines[pos])
    /\ IF started
       THEN pc' = "end" /\ pos' = pos
       ELSE pc' = pc /\ pos' = pos + 1
    /\ UNCHANGED <<table, started, gap>>
    /\ scanFrame

\* if trim.is_empty() { if started { gap += 1; if gap >= max_gap { break; } } continue; }
ScanBlank ==
    /\ scanning
    /\ ~IsStop(Trim(lines[pos]))
    /\ ~IsMarker(lines[pos])
    /\ IsBlank(lines[pos])
    /\ IF started
       THEN /\ gap' = gap + 1
            /\ IF GapReached(gap + 1, max_gap)
               THEN pc' = "end" /\ pos' = pos
               ELSE pc' = pc /\ pos' = pos + 1
       ELSE gap' = gap /\ pc' = pc /\ pos' = pos + 1
    /\ UNCHANGED <<table, started>>
    /\ scanFrame

\* the all-dashes branch: push once started, continue (gap is left as it is)
ScanDash ==
    /\ scanning
    /\ ~IsStop(Trim(lines[pos]))
    /\ ~IsMarker(lines[pos])
    /\ ~IsBlank(lines[pos])
    /\ IsDashes(lines[pos])
    /\ table' = IF KeepDash(started) THEN PushLine(table, lines[pos]) ELSE table
    /\ pos' = pos + 1
    /\ UNCHANGED <<pc, started, gap>>
    /\ scanFrame

\* any other line: started = true; table.push(l.clone()); gap = 0;
ScanContent ==
    /\ scanning
    /\ ~IsStop(Trim(lines[pos]))
    /\ ~IsMarker(lines[pos])
    /\ ~IsBlank(lines[pos])
    /\ ~IsDashes(lines[pos])
    /\ started' = TRUE
    /\ table' = PushLine(table, lines[pos])
    /\ gap' = 0
    /\ pos' = pos + 1
    /\ UNCHANGED pc
    /\ scanFrame

\* the for loop runs out of lines
ScanEndOfInput ==
    /\ pc = "scan"
    /\ pos > Len(lines)
    /\ pc' = "end"
    /\ UNCHANGED <<pos, table, started, gap>>
    /\ scanFrame

\* if table.is_empty() { None } else { Some(table) }
ReturnTable ==
    /\ pc = "end"
    /\ result' = TableResult(table)
    /\ pc' = "returned"
    /\ UNCHANGED <<lines, sec, section_title, max_gap, pos, start_idx, table,
                   started, gap, output>>
    /\ UNCHANGED alertVars
    /\ UNCHANGED rowVars

(***************************************************************************)
(* The alert functions, one loop iteration per step.                       *)
(***************************************************************************)
alertFrame ==
    /\ UNCHANGED <<lines, sec, pc, output, thresholds, alert_fn, rows>>
    /\ UNCHANGED scanVars
    /\ UNCHANGED rowVars

inAlertLoop(fn) == pc = "alert" /\ alert_fn = fn /\ ri <= Len(rows)

\* alert_on_fg_waits: one iteration of  for row in table
AlertRowFg ==
    /\ inAlertLoop("fg")
    /\ alerts' = FgRow(alerts, rows[ri], thresholds)
    /\ ri' = ri + 1
    /\ UNCHANGED acc
    /\ alertFrame

\* alert_on_wait_classes: one iteration of  for row in table
AlertRowWc ==
    /\ inAlertLoop("wc")
    /\ alerts' = WcRow(alerts, rows[ri], thresholds)
    /\ ri' = ri + 1
    /\ UNCHANGED acc
    /\ alertFrame

\* alert_on_io_profile: one iteration of  for l in table
AlertRowIo ==
    /\ inAlertLoop("io")
    /\ alerts' = IoRow(alerts, rows[ri], thresholds)
    /\ acc' = IoRowAcc(acc, rows[ri])
    /\ ri' = ri + 1
    /\ alertFrame

\* alert_on_fg_waits / alert_on_wait_classes: the loop is over, return alerts
AlertReturn ==
    /\ pc = "alert"
    /\ alert_fn \in {"fg", "wc"}
    /\ ri > Len(rows)
    /\ pc' = "alerted"
    /\ UNCHANGED <<lines, sec, output>>
    /\ UNCHANGED scanVars
    /\ UNCHANGED alertVars
    /\ UNCHANGED rowVars

\* alert_on_io_profile: the loop is over, the aggregate rules run, return alerts
AlertAggregateIo ==
    /\ pc = "alert"
    /\ alert_fn = "io"
    /\ ri > Len(rows)
    /\ alerts' = IoAggregate(alerts, acc)
    /\ pc' = "alerted"
    /\ UNCHANGED <<lines, sec, output, thresholds, alert_fn, rows, ri, acc>>
    /\ UNCHANGED scanVars
    /\ UNCHANGED rowVars

\* a direct call alert_fn(table, thresholds)
InitAlerts ==
    /\ \/ alert_fn = "fg" /\ rows \in SeqsUpTo(FgRows, MaxRows)
       \/ alert_fn = "wc" /\ rows \in SeqsUpTo(WcRows, MaxRows)
       \/ alert_fn = "io" /\ rows \in SeqsUpTo(IoRows, MaxRows)
    /\ thresholds \in {DefaultThresholds, TunedThresholds}
    /\ ri = 1
    /\ alerts = <<>>
    /\ acc = NoAcc
    /\ pc = "alert"
    /\ lines = <<>>
    /\ sec = 0
    /\ output = <<>>
    /\ section_title = <<>>
    /\ max_gap = 0
    /\ pos = 0
    /\ start_idx = 0
    /\ table = <<>>
    /\ started = FALSE
    /\ gap = 0
    /\ result = Pending
    /\ idleRow

(***************************************************************************)
(* print_table_with_alert and main.                                        *)
(***************************************************************************)
\* the else branch: println!("*No {} section found.*\n", ..)
PrintNotFound ==
    /\ pc = "returned"
    /\ sec # 0
    /\ result = None
    /\ output' = Append(output, [section |-> Sections[sec].name, found |-> FALSE,
                                 table |-> <<>>, alerts |-> <<>>])
    /\ pc' = "printed"
    /\ UNCHANGED <<lines, sec>>
    /\ UNCHANGED scanVars
    /\ UNCHANGED alertVars
    /\ UNCHANGED rowVars

\* if let Some(table) = ..: the table is printed and alert_fn(&table, thresholds) is called
PrintTable ==
    /\ pc = "returned"
    /\ sec # 0
    /\ result # None
    /\ alert_fn' = Sections[sec].fn
    /\ rows' = result[2]
    /\ ri' = 1
    /\ alerts' = <<>>
    /\ acc' = NoAcc
    /\ pc' = "alert"
    /\ UNCHANGED <<lines, sec, output, thresholds>>
    /\ UNCHANGED scanVars
    /\ UNCHANGED rowVars

\* the alerts (or "No immediate I/O issues flagged.") are printed under the table
PrintAlerts ==
    /\ pc = "alerted"
    /\ sec # 0
    /\ output' = Append(output, [section |-> Sections[sec].name, found |-> TRUE,
                                 table |-> rows, alerts |-> alerts])
    /\ pc' = "printed"
    /\ UNCHANGED <<lines, sec>>
    /\ UNCHANGED scanVars
    /\ UNCHANGED alertVars
    /\ UNCHANGED rowVars

\* main: the next print_table_with_alert call, with max_gap 2
NextSection ==
    /\ pc = "printed"
    /\ sec < Len(Sections)
    /\ sec' = sec + 1
    /\ section_title' = Sections[sec + 1].title
    /\ pc' = "find"
    /\ pos' = 0
    /\ start_idx' = 0
    /\ table' = <<>>
    /\ started' = FALSE
    /\ gap' = 0
    /\ result' = Pending
    /\ alert_fn' = "none"
    /\ rows' = <<>>
    /\ ri' = 0
    /\ alerts' = <<>>
    /\ acc' = NoAcc
    /\ UNCHANGED <<lines, max_gap, output, thresholds>>
    /\ UNCHANGED rowVars

\* main: the knowledge base is printed, the program ends
MainEnd ==
    /\ pc = "printed"
    /\ sec = Len(Sections)
    /\ pc' = "exit"
    /\ UNCHANGED <<lines, sec, output>>
    /\ UNCHANGED scanVars
    /\ UNCHANGED alertVars
    /\ UNCHANGED rowVars

\* main, after read_lines and load_thresholds_from_file
Init ==
    /\ lines \in SeqsUpTo(ReportLines, MaxLines)
    /\ thresholds = DefaultThresholds
    /\ sec = 1
    /\ section_title = Sections[1].title
    /\ max_gap = PrintMaxGap
    /\ output = <<>>
    /\ enterScan
    /\ alert_fn = "none"
    /\ rows = <<>>
    /\ ri = 0
    /\ alerts = <<>>
    /\ acc = NoAcc
    /\ idleRow

(***************************************************************************)
(* The row functions, called on one row.                                   *)
(***************************************************************************)
rowFrame ==
    /\ UNCHANGED <<lines, sec, output, row>>
    /\ UNCHANGED scanVars
    /\ UNCHANGED alertVars

InitRow ==
    /\ row \in SeqsUpTo(RowAlphabet, MaxRowLen) \cup RowSamples
    /\ ret = [percent |-> Pending, latency |-> Pending, event |-> Pending,
              event_again |-> Pending]
    /\ pc = "percent"
    /\ lines = <<>>
    /\ sec = 0
    /\ output = <<>>
    /\ section_title = <<>>
    /\ max_gap = 0
    /\ pos = 0
    /\ start_idx = 0
    /\ table = <<>>
    /\ started = FALSE
    /\ gap = 0
    /\ result = Pending
    /\ idleAlert

CallPercent ==
    /\ pc = "percent"
    /\ ret' = [ret EXCEPT !.percent = extract_percent_from_wait_row(row)]
    /\ pc' = "latency"
    /\ rowFrame

CallLatency ==
    /\ pc = "latency"
    /\ ret' = [ret EXCEPT !.latency = extract_latency_ms(row)]
    /\ pc' = "event"
    /\ rowFrame

CallEventName ==
    /\ pc = "event"
    /\ ret' = [ret EXCEPT !.event = extract_event_name(row)]
    /\ pc' = "event_again"
    /\ rowFrame

\* extract_event_name applied to its own result
CallEventNameAgain ==
    /\ pc = "event_again"
    /\ ret' = [ret EXCEPT !.event_again = extract_event_name(ret.event)]
    /\ pc' = "row_done"
    /\ rowFrame

(***************************************************************************)
(* Specifications.                                                         *)
(***************************************************************************)
NextScan ==
    \/ HeaderMissing
    \/ HeaderFound
    \/ ScanStop
    \/ ScanMarker
    \/ ScanBlank
    \/ ScanDash
    \/ ScanContent
    \/ ScanEndOfInput
    \/ ReturnTable

NextAlerts ==
    \/ AlertRowFg
    \/ AlertRowWc
    \/ AlertRowIo
    \/ AlertReturn
    \/ AlertAggregateIo

NextRow ==
    \/ CallPercent
    \/ CallLatency
    \/ CallEventName
    \/ CallEventNameAgain

Next ==
    \/ HeaderMissing
    \/ HeaderFound
    \/ ScanStop
    \/ ScanMarker
    \/ ScanBlank
    \/ ScanDash
    \/ ScanContent
    \/ ScanEndOfInput
    \/ ReturnTable
    \/ PrintNotFound
    \/ PrintTable
    \/ AlertRowFg
    \/ AlertRowWc
    \/ AlertRowIo
    \/ AlertReturn
    \/ AlertAggregateIo
    \/ PrintAlerts
    \/ NextSection
    \/ MainEnd

\* the whole program: main runs the three sections over one report
Spec == Init /\ [][Next]_vars

\* extract_native_table called on its own, with any max_gap
SpecScan == InitScan /\ [][NextScan]_vars

\* an alert function called on its own, on any table
SpecAlerts == InitAlerts /\ [][NextAlerts]_vars

\* the row functions called on one row
SpecRow == InitRow /\ [][NextRow]_vars

(***************************************************************************)
(* Properties of extract_native_table.                                     *)
(***************************************************************************)
\* the call has returned
ScanReturned == result # Pending

\* a content line: non-blank, non-separator, non-marker, non-boundary
IsContentLine(l) == ~IsStop(Trim(l)) /\ ~IsMarker(l) /\ ~IsBlank(l) /\ ~IsDashes(l)

\* the report has a line matching the header pattern, and h is the first one
FirstHeaderAt(h) ==
    /\ h \in 1..Len(lines)
    /\ SectionMatch(lines[h], section_title)
    /\ \A j \in 1..(h - 1) : ~SectionMatch(lines[j], section_title)

NoHeader == \A k \in 1..Len(lines) : ~SectionMatch(lines[k], section_title)

RECURSIVE EmbedsFrom(_, _, _, _)
\* t[i..] can be matched, in order, to distinct positions of s[j..]
EmbedsFrom(t, i, s, j) ==
    IF i > Len(t) THEN TRUE
    ELSE IF j > Len(s) THEN FALSE
    ELSE IF t[i] = s[j] THEN EmbedsFrom(t, i + 1, s, j + 1)
    ELSE EmbedsFrom(t, i, s, j + 1)

IsSubsequence(t, s) == EmbedsFrom(t, 1, s, 1)

\* the lines the loop went over: from the line after the header up to (not
\* including) the line it stopped on
ScannedSlice == SubSeq(lines, start_idx + 1, pos - 1)

\* the lines of s at the positions satisfying keep, in order
KeepAt(s, keep(_)) ==
    LET idx == SelectSeq([k \in 1..Len(s) |-> k], keep)
    IN  [j \in 1..Len(idx) |-> s[idx[j]]]

\* C1: every returned table is an order-preserving subsequence of the report
\* lines strictly after the first header-matching line, each line an
\* unmodified copy of its source line.
C1_TableIsSubsequence ==
    (ScanReturned /\ result # None) =>
        \E h \in 1..Len(lines) :
            /\ FirstHeaderAt(h)
            /\ IsSubsequence(result[2], SubSeq(lines, h + 1, Len(lines)))

\* a table of two lines or more was returned, lines of the slice were left
\* out, and a returned line carries leading whitespace
C1_Witness ==
    /\ ScanReturned
    /\ result # None
    /\ start_idx > 1
    /\ Len(result[2]) >= 2
    /\ Len(result[2]) < Len(lines) - start_idx
    /\ \E k \in 1..Len(result[2]) : Trim(result[2][k]) # result[2][k]

\* C2 as stated: the returned table is the scanned slice with only marker,
\* blank and boundary lines removed.
C2_OnlyMarkerBlankBoundaryRemoved ==
    (ScanReturned /\ result # None) =>
        result[2] = SelectSeq(ScannedSlice,
                       LAMBDA l : ~IsStop(Trim(l)) /\ ~IsMarker(l) /\ ~IsBlank(l))

\* C2, amended: the returned table is the scanned slice with only marker,
\* blank and boundary lines, and the dash-separator lines that come before the
\* first content line, removed; no other line of the slice is dropped.
C2_SliceRoundTrip ==
    (ScanReturned /\ result # None) =>
        LET slice == ScannedSlice
            kept(k) ==
                /\ ~IsStop(Trim(slice[k]))
                /\ ~IsMarker(slice[k])
                /\ ~IsBlank(slice[k])
                /\ IsDashes(slice[k]) => \E j \in 1..(k - 1) : IsContentLine(slice[j])
        IN  result[2] = KeepAt(slice, kept)

\* a returned table whose slice had a dash line before the first content line,
\* a dash line after it and a blank line
C2_Witness ==
    /\ ScanReturned
    /\ result # None
    /\ \E i, j, k \in 1..Len(ScannedSlice) :
          /\ i < j
          /\ j < k
          /\ IsDashes(ScannedSlice[i])
          /\ \A m \in 1..i : ~IsContentLine(ScannedSlice[m])
          /\ IsContentLine(ScannedSlice[j])
          /\ IsDashes(ScannedSlice[k])
    /\ \E b \in 1..Len(ScannedSlice) : IsBlank(ScannedSlice[b])

\* C4: Some(table) is returned if and only if the header was found and at
\* least one content line was captured before termination; Some of an empty
\* table, or of a table of dash lines only, is never returned.
C4_SomeIffContent ==
    ScanReturned =>
        /\ result # None <=>
              \E h \in 1..Len(lines) :
                  /\ FirstHeaderAt(h)
                  /\ \E k \in (h + 1)..(pos - 1) : IsContentLine(lines[k])
        /\ result # None =>
              /\ result[2] # <<>>
              /\ \E k \in 1..Len(result[2]) : IsContentLine(result[2][k])

\* the header was found, dash lines and blank lines were scanned, no content
\* line: None is returned
C4_Witness ==
    /\ ScanReturned
    /\ result = None
    /\ start_idx # 0
    /\ \E k \in 1..Len(ScannedSlice) : IsDashes(ScannedSlice[k])
    /\ \E k \in 1..Len(ScannedSlice) : IsBlank(ScannedSlice[k])

\* lines a..b are a maximal run of blank lines
BlankRun(a, b) ==
    /\ a <= b
    /\ \A k \in a..b : IsBlank(lines[k])
    /\ ~IsBlank(lines[a - 1])
    /\ b = Len(lines) \/ ~IsBlank(lines[b + 1])

\* a content line lies between the header and line a, and the loop reached line a
StartedAndReached(a) ==
    /\ \E j \in (start_idx + 1)..(a - 1) : IsContentLine(lines[j])
    /\ pos >= a

\* C5: for max_gap >= 1, after content has started, a run of exactly
\* max_gap - 1 blank lines followed by a content line does not end the table
\* (the content line is captured), and a run of max_gap blank lines ends it
\* (the loop stops inside the run).
C5_BlankGapBoundary ==
    (ScanReturned /\ start_idx # 0 /\ max_gap >= 1) =>
        \A a, b \in (start_idx + 1)..Len(lines) :
            /\ ( /\ BlankRun(a, b)
                 /\ b - a + 1 = max_gap - 1
                 /\ StartedAndReached(a)
                 /\ b < Len(lines)
                 /\ IsContentLine(lines[b + 1]) )
               => /\ pos > b + 1
                  /\ result # None
                  /\ \E k \in 1..Len(result[2]) : result[2][k] = lines[b + 1]
            /\ ( /\ BlankRun(a, b)
                 /\ b - a + 1 = max_gap
                 /\ StartedAndReached(a) )
               => pos <= b

(***************************************************************************)
(* Properties of print_table_with_alert.                                   *)
(***************************************************************************)
\* C3: when no line matches the section header, extract_native_table returns
\* None, and print_table_with_alert reports the section as not found without
\* calling the alert function: no alerts for that section.
C3_NoHeaderNoAlerts ==
    (sec # 0 /\ NoHeader) =>
        /\ result \in {Pending, None}
        /\ alert_fn = "none"
        /\ alerts = <<>>
        /\ pc \in {"find", "returned", "printed", "exit"}
        /\ pc \in {"printed", "exit"} =>
              /\ Len(output) = sec
              /\ output[sec] = [section |-> Sections[sec].name, found |-> FALSE,
                                table |-> <<>>, alerts |-> <<>>]

\* the wait-classes section was reported as not found on a report that has
\* a "User I/O" row over the threshold but no wait-classes header
C3_Witness ==
    /\ sec = 2
    /\ pc = "printed"
    /\ NoHeader
    /\ \E k \in 1..Len(lines) : WcRow(<<>>, lines[k], thresholds) # <<>>
    /\ ~output[sec].found

(***************************************************************************)
(* Properties of the row functions.                                        *)
(***************************************************************************)
\* the positions (from 2) of the label tokens: purely alphabetic, or with '/'
LabelPositions(parts) == {i \in 2..Len(parts) : IsLabelToken(parts[i])}

\* the positions of the label tokens whose predecessor parses as a number
PairPositions(parts) ==
    {i \in LabelPositions(parts) : ParseNumberToken(parts[i - 1]) # None}

\* C6 as stated: the result is the value of the token before the first label
\* token found scanning right to left; None when there is no label token after
\* position 0 or when that predecessor does not parse.
C6_FirstLabelDecides ==
    ret.percent # Pending =>
        LET parts == SplitWhitespace(row)
        IN  ret.percent = IF LabelPositions(parts) = {} THEN None
                          ELSE ParseNumberToken(parts[Max(LabelPositions(parts)) - 1])

\* C6, amended: the result is the value of the token before the first label
\* token, scanning right to left, whose predecessor parses as a number after
\* removing commas; None when no label token after position 0 has such a
\* predecessor.
C6_LastNumberLabelPair ==
    ret.percent # Pending =>
        LET parts == SplitWhitespace(row)
        IN  /\ PairPositions(parts) = {} => ret.percent = None
            /\ PairPositions(parts) # {} =>
                  /\ ret.percent # None
                  /\ ret.percent =
                        ParseF64(RemoveCommas(parts[Max(PairPositions(parts)) - 1]))

\* a row whose last label token follows a token that is no number, and which
\* has two (number, label) pairs further left
C6_Witness ==
    /\ ret.percent # Pending
    /\ ret.percent # None
    /\ LET parts == SplitWhitespace(row)
       IN  /\ Max(LabelPositions(parts)) \notin PairPositions(parts)
           /\ Cardinality(PairPositions(parts)) >= 2

\* C7: extract_event_name is idempotent.
C7_EventNameIdempotent ==
    ret.event_again # Pending => ret.event_again = ret.event

\* C8: the result of extract_event_name is the sentinel "unknown" or a
\* non-empty string of lower-case ASCII letters, digits and underscores with no
\* leading, trailing or doubled underscore; never the empty string.
C8_EventNameWellFormed ==
    ret.event # Pending =>
        \/ ret.event = Unknown
        \/ /\ ret.event # <<>>
           /\ \A k \in 1..Len(ret.event) : ret.event[k] \in Lowers \cup Digits \cup {"_"}
           /\ ret.event[1] # "_"
           /\ ret.event[Len(ret.event)] # "_"
           /\ \A k \in 1..(Len(ret.event) - 1) :
                 ~(ret.event[k] = "_" /\ ret.event[k + 1] = "_")

(***************************************************************************)
(* Properties of the alert functions.                                      *)
(***************************************************************************)
\* the alerts the rules of alert function fn trigger on row r, in rule order
TriggeredOn(fn, r, t) ==
    CASE fn = "fg" -> FgRules(r, t, extract_percent_from_wait_row(r),
                              extract_latency_ms(r), extract_event_name(r))
      [] fn = "wc" -> WcRules(r, t, extract_percent_from_wait_row(r))
      [] fn = "io" -> RuleTotalRequests(r, t, FirstParsed(r))

RECURSIVE TriggeredUpTo(_, _, _, _)
\* the triggered alerts of rows 1..n, row after row
TriggeredUpTo(fn, rs, t, n) ==
    IF n = 0 THEN <<>>
    ELSE TriggeredUpTo(fn, rs, t, n - 1) \o TriggeredOn(fn, rs[n], t)

\* the value an accumulator holds after the loop: that of the last row containing key
LastCapture(rs, key) ==
    LET hits == {k \in 1..Len(rs) : Contains(rs[k], key)}
    IN  IF hits = {} THEN None ELSE FirstCapture(rs[Max(hits)])

LastTotal(rs) ==
    LET hits == {k \in 1..Len(rs) :
                    Contains(rs[k], <<"T", "o", "t", "a", "l", " ", "R", "e", "q", "u", "e", "s", "t", "s", ":">>) /\ FirstParsed(rs[k]) # None}
    IN  IF hits = {} THEN None ELSE FirstParsed(rs[Max(hits)])

AccAfter(rs) ==
    [total_requests |-> LastTotal(rs),
     read_reqs |-> LastCapture(rs, <<"R", "e", "a", "d", " ", "R", "e", "q", "u", "e", "s", "t", "s", " ", "p", "e", "r", " ", "S", "e", "c", "o", "n", "d">>),
     write_reqs |-> LastCapture(rs, <<"W", "r", "i", "t", "e", " ", "R", "e", "q", "u", "e", "s", "t", "s", " ", "p", "e", "r", " ", "S", "e", "c", "o", "n", "d">>),
     read_mb |-> LastCapture(rs, <<"R", "e", "a", "d", " ", "M", "B", "/", "s", "e", "c">>),
     write_mb |-> LastCapture(rs, <<"W", "r", "i", "t", "e", " ", "M", "B", "/", "s", "e", "c">>),
     scattered_reads |-> LastCapture(rs, <<"d", "b", " ", "f", "i", "l", "e", " ", "s", "c", "a", "t", "t", "e", "r", "e", "d", " ", "r", "e", "a", "d">>),
     sequential_reads |-> LastCapture(rs, <<"d", "b", " ", "f", "i", "l", "e", " ", "s", "e", "q", "u", "e", "n", "t", "i", "a", "l", " ", "r", "e", "a", "d">>)]

\* the aggregate-rule alerts of alert_on_io_profile, in declared order
TriggeredAggregate(fn, rs) ==
    IF fn = "io"
    THEN RuleWriteReadRatio(AccAfter(rs)) \o RuleLowThroughput(AccAfter(rs))
            \o RuleScattered(AccAfter(rs))
    ELSE <<>>

\* C9: the alert list is the concatenation, in table order, of each row's
\* triggered alerts in rule order, followed (alert_on_io_profile) by the
\* aggregate-rule alerts; nothing is dropped, and no rule stops later rows or
\* later rules.
C9_AlertsInOrder ==
    /\ pc = "alert" => alerts = TriggeredUpTo(alert_fn, rows, thresholds, ri - 1)
    /\ pc = "alerted" =>
          alerts = TriggeredUpTo(alert_fn, rows, thresholds, Len(rows))
                      \o TriggeredAggregate(alert_fn, rows)

\* alert_on_io_profile returned a row alert followed by an aggregate alert,
\* the row that triggered not being the last one
C9_Witness ==
    /\ pc = "alerted"
    /\ alert_fn = "io"
    /\ Len(rows) = MaxRows
    /\ TriggeredOn(alert_fn, rows[1], thresholds) # <<>>
    /\ TriggeredAggregate(alert_fn, rows) # <<>>
    /\ Len(alerts) >= 2

UserIOAlert == <<"High User I/O class - DB is I/O-bound">>

CountOf(al, a) == Cardinality({k \in 1..Len(al) : al[k] = a})

\* C10: alert_on_wait_classes returns as many "High User I/O class" alerts as
\* there are rows that contain "User I/O" and whose extracted percentage is
\* present and strictly greater than wait_pct; with wait_pct = 10 a row at 12
\* yields one, a row at 8, at 10 or without a percentage yields none.
C10_UserIOAlertCount ==
    (pc = "alerted" /\ alert_fn = "wc") =>
        /\ CountOf(alerts, UserIOAlert) =
              Cardinality({k \in 1..Len(rows) :
                  /\ Contains(rows[k], <<"U", "s", "e", "r", " ", "I", "/", "O">>)
                  /\ extract_percent_from_wait_row(rows[k]) # None
                  /\ Gt(extract_percent_from_wait_row(rows[k])[2], thresholds.wait_pct)})
        /\ thresholds.wait_pct = Fin(10, 1) =>
              CountOf(alerts, UserIOAlert) =
                  Cardinality({k \in 1..Len(rows) : rows[k] = <<"1", "2", ".", "0", " ", "U", "s", "e", "r", " ", "I", "/", "O">>})

\* with wait_pct = 10: a row at 12, a row at exactly 10 and a row with no
\* extractable percentage gave exactly one I/O-bound alert
C10_Witness ==
    /\ pc = "alerted"
    /\ alert_fn = "wc"
    /\ thresholds.wait_pct = Fin(10, 1)
    /\ \E i, j, k \in 1..Len(rows) :
          /\ rows[i] = <<"1", "2", ".", "0", " ", "U", "s", "e", "r", " ", "I", "/", "O">>
          /\ rows[j] = <<"1", "0", ".", "0", " ", "U", "s", "e", "r", " ", "I", "/", "O">>
          /\ rows[k] = <<"U", "s", "e", "r", " ", "I", "/", "O", " ", " ", "1", "2", ".", "0">>
    /\ CountOf(alerts, UserIOAlert) = 1

\* the write/read ratio alerts of an alert list
RatioAlerts(al) ==
    {k \in 1..Len(al) : al[k][1] = "Write requests are more than 2x reads"}

\* the rate the table gives under key: the first number of the last row that
\* names the key, absent if that row has no number that parses
WriteRate(rs) == LastCapture(rs, <<"W", "r", "i", "t", "e", " ", "R", "e", "q", "u", "e", "s", "t", "s", " ", "p", "e", "r", " ", "S", "e", "c", "o", "n", "d">>)
ReadRate(rs) == LastCapture(rs, <<"R", "e", "a", "d", " ", "R", "e", "q", "u", "e", "s", "t", "s", " ", "p", "e", "r", " ", "S", "e", "c", "o", "n", "d">>)

\* C11: alert_on_io_profile emits the write/read ratio alert at most once, and
\* emits it if and only if a write rate and a read rate were both extracted
\* from the table and write > 2 * read (strict): it fires for write = 50,
\* read = 20, and not for write = 35 or 40, read = 20, nor when a rate is
\* absent.
C11_WriteReadRatioAlert ==
    (pc = "alerted" /\ alert_fn = "io") =>
        LET w == WriteRate(rows)
            r == ReadRate(rows)
            n == Cardinality(RatioAlerts(alerts))
        IN  /\ n <= 1
            /\ n = 1 <=> /\ w # None
                         /\ r # None
                         /\ w[2].n * r[2].d > 2 * r[2].n * w[2].d
            /\ (w = Some(Fin(50, 1)) /\ r = Some(Fin(20, 1))) => n = 1
            /\ (w = Some(Fin(35, 1)) /\ r = Some(Fin(20, 1))) => n = 0
            /\ (w = None \/ r = None) => n = 0
            /\ \A k \in RatioAlerts(alerts) : alerts[k][2] = w[2] /\ alerts[k][3] = r[2]

\* a table with write rates 35 and then 50 and read rate 20: the alert was
\* emitted once, for 50 against 20
C11_Witness ==
    /\ pc = "alerted"
    /\ alert_fn = "io"
    /\ rows = << <<"W", "r", "i", "t", "e", " ", "R", "e", "q", "u", "e", "s", "t", "s", " ", "p", "e", "r", " ", "S", "e", "c", "o", "n", "d", ":", " ", "3", "5", ".", "0">>,
                 <<"R", "e", "a", "d", " ", "R", "e", "q", "u", "e", "s", "t", "s", " ", "p", "e", "r", " ", "S", "e", "c", "o", "n", "d", ":", " ", "2", "0", ".", "0">>,
                 <<"W", "r", "i", "t", "e", " ", "R", "e", "q", "u", "e", "s", "t", "s", " ", "p", "e", "r", " ", "S", "e", "c", "o", "n", "d", ":", " ", "5", "0", ".", "0">> >>
    /\ Cardinality(RatioAlerts(alerts)) = 1

\* the loop broke on a blank line: line pos is the line it stopped on
StoppedOnBlank ==
    /\ ScanReturned
    /\ start_idx # 0
    /\ pos <= Len(lines)
    /\ IsBlank(lines[pos])

\* C12: the scan stops on a blank line only if that line and the max_gap - 1
\* lines immediately before it are all blank lines of the scanned slice; blank
\* lines separated by a non-blank line (a dash separator line included) never
\* add up to a termination.
C12_GapCountsConsecutiveBlanks ==
    StoppedOnBlank =>
        /\ pos - max_gap >= start_idx
        /\ \A k \in (pos - max_gap + 1)..pos : IsBlank(lines[k])

\* the line matches one of the unrelated-section patterns
MatchesBoundary(l) ==
    \E p \in 1..Len(stop_patterns) : StartsWith(Trim(l), stop_patterns[p])

\* line s is the first line after the header that matches such a pattern
FirstBoundaryAt(s) ==
    /\ s \in (start_idx + 1)..Len(lines)
    /\ MatchesBoundary(lines[s])
    /\ \A k \in (start_idx + 1)..(s - 1) : ~MatchesBoundary(lines[k])

\* what the per-line rules accumulate over the lines between the header and
\* line e: the content lines, and the dash lines that follow a content line
AccumulatedBefore(e) ==
    LET slice == SubSeq(lines, start_idx + 1, e - 1)
        kept(k) ==
            /\ IsContentLine(slice[k]) \/ IsDashes(slice[k])
            /\ IsDashes(slice[k]) => \E j \in 1..(k - 1) : IsContentLine(slice[j])
    IN  KeepAt(slice, kept)

\* C13: the first line after the header that matches an unrelated-section
\* pattern ends the scan, whether or not content has started and whatever
\* other rule the line matches: the scan never goes past it, that line and the
\* lines after it are not in the table, and when the scan reaches it the lines
\* accumulated before it are returned unchanged (None if there are none).
C13_StopBoundaryFirst ==
    (ScanReturned /\ start_idx # 0) =>
        \A s \in (start_idx + 1)..Len(lines) :
            FirstBoundaryAt(s) =>
                /\ pos <= s
                /\ result # None =>
                      IsSubsequence(result[2], SubSeq(lines, start_idx + 1, s - 1))
                /\ pos = s =>
                      result = IF AccumulatedBefore(s) = <<>> THEN None
                               ELSE Some(AccumulatedBefore(s))

\* the scan ended on a boundary line that also has the form of a label, before
\* any content line, with skipped lines before it and a content line after it
C13_Witness ==
    /\ ScanReturned
    /\ start_idx # 0
    /\ FirstBoundaryAt(pos)
    /\ IsLabel(Trim(lines[pos]))
    /\ pos > start_idx + 1
    /\ \E k \in (pos + 1)..Len(lines) : IsContentLine(lines[k])
    /\ result = None

====
